---- MODULE Spec2Model ----
(***************************************************************************)
(* Research-context processing pipeline of applications/affirmations       *)
(* (src/research.py): content extraction, relevance-windowed truncation,   *)
(* result formatting, near-duplicate removal and context budgeting.        *)
(*                                                                         *)
(* A Python str is a sequence of one-character strings.  Every function    *)
(* of research.py is a run of actions over the variables below: its        *)
(* arguments, its locals and its return value.  Each function has a        *)
(* specification of its own whose Init draws the arguments from bounded    *)
(* sets.                                                                   *)
(***************************************************************************)
EXTENDS Integers, Sequences, FiniteSets, TLC

VARIABLES
    pc,                \* position of the running call
    caller,            \* who called truncate_with_relevance: "none" | "process"
    \* truncate_with_relevance(text, query, max_chars)
    text, query, max_chars, query_words, chunks, start, truncated,
    \* deduplicate_results(results)
    results, seen_fingerprints, unique_results, idx, pass, first_pass,
    \* budget_context(results, max_total_chars)
    pieces, max_total_chars, context,
    \* process_search_results(raw_results, query, source_name)
    raw_results, source_name, library_output, extracted, formatted,
    \* the frames (arguments, locals, return value) of calls running at once
    calls

truncate_vars == <<text, query, max_chars, query_words, chunks, start, truncated>>
dedup_vars    == <<results, seen_fingerprints, unique_results, idx, pass, first_pass>>
budget_vars   == <<pieces, max_total_chars, context>>
process_vars  == <<raw_results, source_name, library_output, extracted, formatted>>
vars == <<pc, caller, calls, truncate_vars, dedup_vars, budget_vars, process_vars>>

(***************************************************************************)
(* Bounds of the model.                                                    *)
(***************************************************************************)
MaxTextLen  == 5     \* longest text handed to truncate_with_relevance directly
MaxQueryLen == 2     \* longest query
MaxChars    == 4     \* largest max_chars handed to truncate_with_relevance directly

(***************************************************************************)
(* Python str operations.                                                  *)
(***************************************************************************)
Min(a, b) == IF a <= b THEN a ELSE b
Max(a, b) == IF a >= b THEN a ELSE b

\* The value None: a one-element tuple that is no str (its element is not a
\* character), so that it compares unequal to every str.
None == <<"None">>

\* Strings over alphabet S of length at most n.
StringsUpTo(S, n) == UNION {[1..k -> S] : k \in 0..n}

\* n copies of the character c.
Repeat(c, n) == [i \in 1..n |-> c]

\* str.isspace for one character (also what \s matches).
IsSpace(c) == c \in {" ", "\n", "\t"}

\* str.lower for one character; the cased letters of the model are a/A, b/B.
LowerChar(c) == CASE c = "A" -> "a" [] c = "B" -> "b" [] OTHER -> c

\* s.lower()
lower(s) == [i \in 1..Len(s) |-> LowerChar(s[i])]

\* s[a:b] for 0 <= a, 0 <= b (Python's half-open, clamped slice).
\* (SliceOffByOne: the slice that also takes the character at index b.)
SliceOffByOne(s, a, b) == SubSeq(s, a + 1, Min(b + 1, Len(s)))
Slice(s, a, b) == SubSeq(s, a + 1, Min(b, Len(s)))

\* s.strip(): s without its leading and trailing whitespace.
strip(s) ==
    LET n == Len(s)
    IN  IF \A i \in 1..n : IsSpace(s[i]) THEN <<>>
        ELSE SubSeq(s,
                    CHOOSE i \in 1..n : ~IsSpace(s[i]) /\ \A j \in 1..(i - 1) : IsSpace(s[j]),
                    CHOOSE i \in 1..n : ~IsSpace(s[i]) /\ \A j \in (i + 1)..n : IsSpace(s[j]))

\* set(s.split()): the set of maximal runs of non-whitespace characters.
split(s) ==
    LET n == Len(s)
        starts == {i \in 1..n : ~IsSpace(s[i]) /\ (i = 1 \/ IsSpace(s[i - 1]))}
        ends   == {j \in 1..n : ~IsSpace(s[j]) /\ (j = n \/ IsSpace(s[j + 1]))}
        EndOf(i) == CHOOSE j \in ends : j >= i /\ \A e \in ends : e >= i => j <= e
    IN  {SubSeq(s, i, EndOf(i)) : i \in starts}

\* re.sub(r"\s+", " ", s): every maximal whitespace run becomes one space.
CollapseWhitespace(s) ==
    LET marked == [i \in 1..Len(s) |->
                     IF IsSpace(s[i])
                     THEN IF i > 1 /\ IsSpace(s[i - 1]) THEN <<"drop", " ">>
                                                        ELSE <<"keep", " ">>
                     ELSE <<"keep", s[i]>>]
        Kept(m) == m[1] = "keep"
        kept == SelectSeq(marked, Kept)
    IN  [i \in 1..Len(kept) |-> kept[i][2]]

(***************************************************************************)
(* truncate_with_relevance(text, query, max_chars)                         *)
(***************************************************************************)
TextAlphabet == {"a", "A", " "}
Texts     == StringsUpTo(TextAlphabet, MaxTextLen)
Queries   == StringsUpTo(TextAlphabet, MaxQueryLen)

\* score_chunk: distinct query words that are also words of the chunk.
score_chunk(words, chunk) == Cardinality(words \cap split(lower(chunk)))

\* The last chunk of maximal score.
BestChunkLast(words, cs) ==
    LET i == CHOOSE i \in 1..Len(cs) :
                 /\ \A j \in 1..Len(cs) : score_chunk(words, cs[j]) <= score_chunk(words, cs[i])
                 /\ \A j \in (i + 1)..Len(cs) : score_chunk(words, cs[j]) < score_chunk(words, cs[i])
    IN  cs[i]

\* max(chunks, key=score_chunk): the first chunk of maximal score.
BestChunk(words, cs) ==
    LET i == CHOOSE i \in 1..Len(cs) :
                 /\ \A j \in 1..Len(cs) : score_chunk(words, cs[j]) <= score_chunk(words, cs[i])
                 /\ \A j \in 1..(i - 1) : score_chunk(words, cs[j]) < score_chunk(words, cs[i])
    IN  cs[i]

\* Where a finished truncate_with_relevance call returns to.
TruncateReturn == IF caller = "process" THEN "format" ELSE "done"

\* if len(text) <= max_chars: return text
\* (TruncateShortStripped: the early return that trims the text.)
TruncateShortStripped ==
    /\ pc = "truncate"
    /\ Len(text) <= max_chars
    /\ truncated' = strip(text)
    /\ pc' = TruncateReturn
    /\ UNCHANGED <<caller, calls, text, query, max_chars, query_words, chunks, start,
                   dedup_vars, budget_vars, process_vars>>

TruncateShort ==
    /\ pc = "truncate"
    /\ Len(text) <= max_chars
    /\ truncated' = text
    /\ pc' = TruncateReturn
    /\ UNCHANGED <<caller, calls, text, query, max_chars, query_words, chunks, start,
                   dedup_vars, budget_vars, process_vars>>

\* query_words = set(query.lower().split()); chunks = []; start = 0
TruncateBegin ==
    /\ pc = "truncate"
    /\ Len(text) > max_chars
    /\ query_words' = split(lower(query))
    /\ chunks' = <<>>
    /\ start' = 0
    /\ pc' = "windows"
    /\ UNCHANGED <<caller, calls, text, query, max_chars, truncated,
                   dedup_vars, budget_vars, process_vars>>

\* As TruncateWindow, but advancing by chunk_size + overlap.
TruncateWindowGapped ==
    /\ pc = "windows"
    /\ start < Len(text)
    /\ LET chunk_size == max_chars
           overlap == max_chars \div 4
       IN  /\ chunks' = Append(chunks, Slice(text, start, start + chunk_size))
           /\ start' = start + (chunk_size + overlap)
    /\ UNCHANGED <<pc, caller, calls, text, query, max_chars, query_words, truncated,
                   dedup_vars, budget_vars, process_vars>>

\* As TruncateWindow, but with the overlap rounded up: a quarter of
\* max_chars, at least 1.
TruncateWindowCeilOverlap ==
    /\ pc = "windows"
    /\ start < Len(text)
    /\ LET chunk_size == max_chars
           overlap == (max_chars + 3) \div 4
       IN  /\ chunks' = Append(chunks, Slice(text, start, start + chunk_size))
           /\ start' = start + (chunk_size - overlap)
    /\ UNCHANGED <<pc, caller, calls, text, query, max_chars, query_words, truncated,
                   dedup_vars, budget_vars, process_vars>>

\* As TruncateWindow, but with no overlap between consecutive windows.
TruncateWindowNoOverlap ==
    /\ pc = "windows"
    /\ start < Len(text)
    /\ LET chunk_size == max_chars
           overlap == 0
       IN  /\ chunks' = Append(chunks, Slice(text, start, start + chunk_size))
           /\ start' = start + (chunk_size - overlap)
    /\ UNCHANGED <<pc, caller, calls, text, query, max_chars, query_words, truncated,
                   dedup_vars, budget_vars, process_vars>>

\* One iteration of: while start < len(text)
TruncateWindow ==
    /\ pc = "windows"
    /\ start < Len(text)
    /\ LET chunk_size == max_chars
           overlap == max_chars \div 4
       IN  /\ chunks' = Append(chunks, Slice(text, start, start + chunk_size))
           /\ start' = start + (chunk_size - overlap)
    /\ UNCHANGED <<pc, caller, calls, text, query, max_chars, query_words, truncated,
                   dedup_vars, budget_vars, process_vars>>

\* As TruncateSelect, but always returning the first max_chars characters
\* of the text.
TruncateSelectFirstChars ==
    /\ pc = "windows"
    /\ ~(start < Len(text))
    /\ truncated' = Slice(text, 0, max_chars)
    /\ pc' = TruncateReturn
    /\ UNCHANGED <<caller, calls, text, query, max_chars, query_words, chunks, start,
                   dedup_vars, budget_vars, process_vars>>

\* Loop exit: the degenerate return, or the best chunk cut to max_chars.
TruncateSelect ==
    /\ pc = "windows"
    /\ ~(start < Len(text))
    /\ truncated' = IF chunks = <<>>
                    THEN Slice(text, 0, max_chars)
                    ELSE Slice(BestChunk(query_words, chunks), 0, max_chars)
    /\ pc' = TruncateReturn
    /\ UNCHANGED <<caller, calls, text, query, max_chars, query_words, chunks, start,
                   dedup_vars, budget_vars, process_vars>>

TruncateNext == TruncateShort \/ TruncateBegin \/ TruncateWindow \/ TruncateSelect

\* The loop followed for at most MaxWindows iterations: more than any text
\* of the model needs when start advances, and the point where a loop that
\* does not advance is no longer followed.
MaxWindows == MaxTextLen + 1

TruncateWindowBounded ==
    /\ Len(chunks) < MaxWindows
    /\ TruncateWindow

LoopTexts == StringsUpTo({"a", " "}, MaxTextLen)
LoopQueries == {<<>>, <<"a">>}

TruncateLoopNext ==
    TruncateShort \/ TruncateBegin \/ TruncateWindowBounded \/ TruncateSelect

(***************************************************************************)
(* deduplicate_results(results)                                            *)
(***************************************************************************)
MaxBatch == 3        \* longest batch handed to deduplicate_results

\* content[:200]: the length of the fingerprinted prefix.
FingerprintLen == 200

\* A string of exactly FingerprintLen characters.
Filler == Repeat("a", FingerprintLen)

\* The contents a record may carry: blank ones, case and whitespace variants
\* of the same words, and long ones that differ only around the end of the
\* fingerprinted prefix.
Contents ==
    { <<>>, <<"\n", "\t">>,
      <<"a">>, <<" ", "A", "\n">>,
      <<"a", " ", "b">>, <<"A", "\n", " ", "B">>,
      Filler \o <<"b">>, Filler \o <<"A">>, <<" ">> \o Filler \o <<"b">> }

\* A result dict: caller-owned metadata "id", and "content" unless absent.
RecordShapes == {<<"content", c>> : c \in Contents} \cup {<<"absent", <<>>>>}
Record(shape, i) ==
    IF shape[1] = "absent" THEN [id |-> i] ELSE [content |-> shape[2], id |-> i]

\* The batches: every record carries its position as its id.
Batches ==
    UNION { { [i \in 1..n |-> Record(shapes[i], i)] : shapes \in [1..n -> RecordShapes] }
            : n \in 0..MaxBatch }

\* str(result.get("content", ""))
ContentOf(result) == IF "content" \in DOMAIN result THEN result.content ELSE <<>>

\* re.sub(r"\s+", " ", content[:200].lower().strip())
\* (fingerprintCaseSensitive: the fingerprint without .lower().)
fingerprintCaseSensitive(content) ==
    CollapseWhitespace(strip(Slice(content, 0, FingerprintLen)))
\* (fingerprintUntrimmed: the fingerprint without .strip().)
fingerprintUntrimmed(content) ==
    CollapseWhitespace(lower(Slice(content, 0, FingerprintLen)))
fingerprint(content) ==
    CollapseWhitespace(strip(lower(Slice(content, 0, FingerprintLen))))

\* seen_fingerprints = set(); unique_results = []
\* (DedupBeginSkipFirst: the loop that starts at the second record.)
DedupBeginSkipFirst ==
    /\ pc = "dedup"
    /\ seen_fingerprints' = {}
    /\ unique_results' = <<>>
    /\ idx' = 2
    /\ pc' = "dedup_loop"
    /\ UNCHANGED <<caller, calls, results, pass, first_pass,
                   truncate_vars, budget_vars, process_vars>>

DedupBegin ==
    /\ pc = "dedup"
    /\ seen_fingerprints' = {}
    /\ unique_results' = <<>>
    /\ idx' = 1
    /\ pc' = "dedup_loop"
    /\ UNCHANGED <<caller, calls, results, pass, first_pass,
                   truncate_vars, budget_vars, process_vars>>

\* One iteration of: for result in results
\* (DedupIterPrepend: the loop body that inserts at the front.)
DedupIterPrepend ==
    /\ pc = "dedup_loop"
    /\ idx <= Len(results)
    /\ LET result == results[idx]
           content == ContentOf(result)
           fp == fingerprint(content)
       IN  IF fp \notin seen_fingerprints
           THEN /\ seen_fingerprints' = seen_fingerprints \cup {fp}
                /\ unique_results' = <<result>> \o unique_results
           ELSE UNCHANGED <<seen_fingerprints, unique_results>>
    /\ idx' = idx + 1
    /\ UNCHANGED <<pc, caller, calls, results, pass, first_pass,
                   truncate_vars, budget_vars, process_vars>>

\* As DedupIter, but storing the fingerprint back into the record
\* (result["content"] = fingerprint): the record is shared with the input
\* list, so the input changes too.
DedupIterNormalising ==
    /\ pc = "dedup_loop"
    /\ idx <= Len(results)
    /\ LET result == results[idx]
           content == ContentOf(result)
           fp == fingerprint(content)
           stored == [id |-> result.id, content |-> fp]
       IN  /\ results' = [results EXCEPT ![idx] = stored]
           /\ IF fp \notin seen_fingerprints
              THEN /\ seen_fingerprints' = seen_fingerprints \cup {fp}
                   /\ unique_results' = Append(unique_results, stored)
              ELSE UNCHANGED <<seen_fingerprints, unique_results>>
    /\ idx' = idx + 1
    /\ UNCHANGED <<pc, caller, calls, pass, first_pass,
                   truncate_vars, budget_vars, process_vars>>

DedupIter ==
    /\ pc = "dedup_loop"
    /\ idx <= Len(results)
    /\ LET result == results[idx]
           content == ContentOf(result)
           fp == fingerprint(content)
       IN  IF fp \notin seen_fingerprints
           THEN /\ seen_fingerprints' = seen_fingerprints \cup {fp}
                /\ unique_results' = Append(unique_results, result)
           ELSE UNCHANGED <<seen_fingerprints, unique_results>>
    /\ idx' = idx + 1
    /\ UNCHANGED <<pc, caller, calls, results, pass, first_pass,
                   truncate_vars, budget_vars, process_vars>>

\* return unique_results
DedupReturn ==
    /\ pc = "dedup_loop"
    /\ idx > Len(results)
    /\ pc' = "done"
    /\ UNCHANGED <<caller, calls, dedup_vars, truncate_vars, budget_vars, process_vars>>

\* The caller hands the returned list to deduplicate_results once more.
DedupAgain ==
    /\ pc = "done"
    /\ pass = 1
    /\ first_pass' = unique_results
    /\ results' = unique_results
    /\ pass' = 2
    /\ pc' = "dedup"
    /\ UNCHANGED <<caller, calls, seen_fingerprints, unique_results, idx,
                   truncate_vars, budget_vars, process_vars>>

DedupNext == DedupBegin \/ DedupIter \/ DedupReturn \/ DedupAgain

(***************************************************************************)
(* budget_context(results, max_total_chars)                                *)
(***************************************************************************)
MaxPieces   == 2     \* longest list handed to budget_context
MaxPieceLen == 4     \* longest string of that list
MaxBudget   == 5     \* largest max_total_chars

PieceAlphabet == {"a", "b"}
PieceLists == StringsUpTo(StringsUpTo(PieceAlphabet, MaxPieceLen), MaxPieces)

\* The separator of "\n\n".join(...).
Separator == <<"\n", "\n">>

\* sep.join(list)
RECURSIVE Join(_, _)
Join(sep, list) ==
    IF list = <<>> THEN <<>>
    ELSE IF Len(list) = 1 THEN list[1]
    ELSE list[1] \o sep \o Join(sep, Tail(list))

\* sum(len(r) for r in results)
RECURSIVE TotalLen(_)
TotalLen(list) == IF list = <<>> THEN 0 ELSE Len(list[1]) + TotalLen(Tail(list))

\* sum(len(r) for r in results) <= max_total_chars
\* (WithinBudgetStrict: the comparison with < for <=.)
WithinBudgetStrict(list, budget) == TotalLen(list) < budget
WithinBudget(list, budget) == TotalLen(list) <= budget

\* per_result_budget = max_total_chars // len(results)
\* (per_result_budget_ceil: the share rounded up.)
per_result_budget_ceil(budget, count) == (budget + count - 1) \div count
per_result_budget(budget, count) == budget \div count

\* if not results: return ""
BudgetEmpty ==
    /\ pc = "budget"
    /\ pieces = <<>>
    /\ context' = <<>>
    /\ pc' = "done"
    /\ UNCHANGED <<caller, calls, pieces, max_total_chars,
                   truncate_vars, dedup_vars, process_vars>>

\* if sum(...) <= max_total_chars: return "\n\n".join(results)
BudgetJoinAll ==
    /\ pc = "budget"
    /\ pieces # <<>>
    /\ WithinBudget(pieces, max_total_chars)
    /\ context' = Join(Separator, pieces)
    /\ pc' = "done"
    /\ UNCHANGED <<caller, calls, pieces, max_total_chars,
                   truncate_vars, dedup_vars, process_vars>>

\* truncated = [r[:per_result_budget] for r in results]; return "\n\n".join(truncated)
\* (BudgetTruncateForgotten: the return that joins results, not truncated.)
BudgetTruncateForgotten ==
    /\ pc = "budget"
    /\ pieces # <<>>
    /\ ~WithinBudget(pieces, max_total_chars)
    /\ context' = Join(Separator, pieces)
    /\ pc' = "done"
    /\ UNCHANGED <<caller, calls, pieces, max_total_chars,
                   truncate_vars, dedup_vars, process_vars>>

\* (BudgetTruncateDropEmpty: the join that skips pieces cut to nothing.)
BudgetTruncateDropEmpty ==
    /\ pc = "budget"
    /\ pieces # <<>>
    /\ ~WithinBudget(pieces, max_total_chars)
    /\ LET share == per_result_budget(max_total_chars, Len(pieces))
           cut == [k \in 1..Len(pieces) |-> Slice(pieces[k], 0, share)]
           NonEmpty(piece) == piece # <<>>
       IN  context' = Join(Separator, SelectSeq(cut, NonEmpty))
    /\ pc' = "done"
    /\ UNCHANGED <<caller, calls, pieces, max_total_chars,
                   truncate_vars, dedup_vars, process_vars>>

BudgetTruncate ==
    /\ pc = "budget"
    /\ pieces # <<>>
    /\ ~WithinBudget(pieces, max_total_chars)
    /\ LET share == per_result_budget(max_total_chars, Len(pieces))
           cut == [k \in 1..Len(pieces) |-> Slice(pieces[k], 0, share)]
       IN  context' = Join(Separator, cut)
    /\ pc' = "done"
    /\ UNCHANGED <<caller, calls, pieces, max_total_chars,
                   truncate_vars, dedup_vars, process_vars>>

BudgetNext == BudgetEmpty \/ BudgetJoinAll \/ BudgetTruncate

(***************************************************************************)
(* extract_content(raw), format_research_result(title, source, content)    *)
(* and process_search_results(raw_results, query, source_name)             *)
(***************************************************************************)
MaxRawLen == 3       \* longest short raw tool output

\* truncate_with_relevance(extracted, query, max_chars=1000)
PipelineMaxChars == 1000

\* A word of PipelineMaxChars - 1 characters.
LongWord == Repeat("a", PipelineMaxChars - 1)

\* Raw tool outputs: every short string of text, whitespace and tag
\* brackets, and tagged texts longer than PipelineMaxChars.
RawAlphabet == {"a", " ", "<", ">"}
RawInputs ==
    StringsUpTo(RawAlphabet, MaxRawLen)
        \cup { <<"<", "a", ">">> \o LongWord \o <<" ", "a", "<", "b", ">", " ", "A">>,
               LongWord \o <<"a", "a">> }

ProcessQueries == { <<>>, <<"a">>, <<"A", " ", "b">> }
SourceNames    == { <<>>, <<"w", "i", "k", "i">> }

\* What trafilatura.extract may return for a non-blank document: None, or
\* any text.  It is a library outside the repository: every outcome is
\* possible for every document.
NotCalled == <<"NotCalled">>
LibraryOutputs ==
    { None, <<>>, <<" ", "\n">>, <<" ", "a", " ", "A", "\n">>,
      LongWord \o <<" ", "a", " ", "b">> }

\* The first match of <[^>]+> in s at or after position from: <<i, j>> with
\* s[i] = "<", s[j] the first ">" after i, and at least one character in
\* between; <<0, 0>> when there is none.
FirstTag(s, from) ==
    LET n == Len(s)
        Close(i) == CHOOSE j \in (i + 1)..n :
                        s[j] = ">" /\ \A k \in (i + 1)..(j - 1) : s[k] # ">"
        Opens == {i \in from..n :
                     /\ s[i] = "<"
                     /\ \E j \in (i + 1)..n : s[j] = ">"
                     /\ Close(i) >= i + 2}
    IN  IF Opens = {} THEN <<0, 0>>
        ELSE LET i == CHOOSE i \in Opens : \A k \in Opens : i <= k
             IN  <<i, Close(i)>>

\* re.sub(r"<[^>]+>", " ", s): leftmost non-overlapping matches become a space.
RECURSIVE StripTagsFrom(_, _)
StripTagsFrom(s, from) ==
    LET m == FirstTag(s, from)
    IN  IF m = <<0, 0>> THEN SubSeq(s, from, Len(s))
        ELSE SubSeq(s, from, m[1] - 1) \o <<" ">> \o StripTagsFrom(s, m[2] + 1)
StripTags(s) == StripTagsFrom(s, 1)

\* not raw or not raw.strip()
IsBlank(s) == s = <<>> \/ strip(s) = <<>>

\* The fallback of extract_content: tags to spaces, whitespace collapsed, trimmed.
FallbackExtract(raw) == strip(CollapseWhitespace(StripTags(raw)))

\* f"[Source: {source}] {title}: {content}"
\* (format_research_result_swapped: title and source exchanged.)
format_research_result_swapped(title, source, content) ==
    <<"[", "S", "o", "u", "r", "c", "e", ":", " ">> \o title \o <<"]", " ">>
        \o source \o <<":", " ">> \o content
format_research_result(title, source, content) ==
    <<"[", "S", "o", "u", "r", "c", "e", ":", " ">> \o source \o <<"]", " ">>
        \o title \o <<":", " ">> \o content

\* extract_content: if not raw or not raw.strip(): return ""
ExtractBlank ==
    /\ pc = "process"
    /\ IsBlank(raw_results)
    /\ extracted' = <<>>
    /\ pc' = "extracted"
    /\ UNCHANGED <<caller, calls, raw_results, source_name, library_output, formatted,
                   truncate_vars, dedup_vars, budget_vars>>

\* extract_content: trafilatura yields non-blank text, returned trimmed
\* (ExtractPrimaryAfterFallback: the tag-stripping result preferred when it
\* is non-empty.)
ExtractPrimaryAfterFallback ==
    /\ pc = "process"
    /\ ~IsBlank(raw_results)
    /\ \E out \in LibraryOutputs :
          /\ out # None /\ ~IsBlank(out)
          /\ library_output' = out
          /\ extracted' = IF FallbackExtract(raw_results) # <<>>
                          THEN FallbackExtract(raw_results)
                          ELSE strip(out)
    /\ pc' = "extracted"
    /\ UNCHANGED <<caller, calls, raw_results, source_name, formatted,
                   truncate_vars, dedup_vars, budget_vars>>

ExtractPrimary ==
    /\ pc = "process"
    /\ ~IsBlank(raw_results)
    /\ \E out \in LibraryOutputs :
          /\ out # None /\ ~IsBlank(out)
          /\ library_output' = out
          /\ extracted' = strip(out)
    /\ pc' = "extracted"
    /\ UNCHANGED <<caller, calls, raw_results, source_name, formatted,
                   truncate_vars, dedup_vars, budget_vars>>

\* extract_content: trafilatura yields nothing, the tag-stripping fallback runs
ExtractFallback ==
    /\ pc = "process"
    /\ ~IsBlank(raw_results)
    /\ \E out \in LibraryOutputs :
          /\ out = None \/ IsBlank(out)
          /\ library_output' = out
          /\ extracted' = FallbackExtract(raw_results)
    /\ pc' = "extracted"
    /\ UNCHANGED <<caller, calls, raw_results, source_name, formatted,
                   truncate_vars, dedup_vars, budget_vars>>

\* if not extracted: return ""
ProcessEmpty ==
    /\ pc = "extracted"
    /\ extracted = <<>>
    /\ formatted' = <<>>
    /\ pc' = "done"
    /\ UNCHANGED <<caller, calls, raw_results, source_name, library_output, extracted,
                   truncate_vars, dedup_vars, budget_vars>>

\* truncated = truncate_with_relevance(extracted, query, max_chars=1000)
ProcessTruncate ==
    /\ pc = "extracted"
    /\ extracted # <<>>
    /\ text' = extracted
    /\ max_chars' = PipelineMaxChars
    /\ pc' = "truncate"
    /\ UNCHANGED <<caller, calls, query, query_words, chunks, start, truncated,
                   process_vars, dedup_vars, budget_vars>>

\* return format_research_result(title=query, source=source_name, content=truncated)
ProcessFormat ==
    /\ pc = "format"
    /\ formatted' = format_research_result(query, source_name, truncated)
    /\ pc' = "done"
    /\ UNCHANGED <<caller, calls, raw_results, source_name, library_output, extracted,
                   truncate_vars, dedup_vars, budget_vars>>

ProcessNext ==
    \/ ExtractBlank \/ ExtractPrimary \/ ExtractFallback
    \/ ProcessEmpty \/ ProcessTruncate
    \/ TruncateShort \/ TruncateBegin \/ TruncateWindow \/ TruncateSelect
    \/ ProcessFormat

(***************************************************************************)
(* Calls running at once.  Every call of a function of research.py has a   *)
(* frame of its own: its arguments, its locals (seen_fingerprints,         *)
(* unique_results, chunks, start, ...) and its return value.  The module   *)
(* has no global the functions write.  A step of a call is one step of     *)
(* its function on its own frame; steps of different calls interleave.     *)
(***************************************************************************)
NumCalls == 2        \* calls running at once

CallIds == 1..NumCalls

\* A frame before anything is bound.
BlankFrame ==
    [ op |-> "none", pc |-> "none",
      results |-> <<>>, seen_fingerprints |-> {}, unique_results |-> <<>>, idx |-> 1,
      pieces |-> <<>>, max_total_chars |-> 0,
      raw_results |-> <<>>, query |-> <<>>, source_name |-> <<>>,
      library_output |-> None, extracted |-> None,
      query_words |-> {}, chunks |-> <<>>, start |-> 0, truncated |-> None,
      returned |-> None ]

DedupCall(rs) ==
    [BlankFrame EXCEPT !.op = "dedup", !.pc = "dedup", !.results = rs]
BudgetCall(ps, budget) ==
    [BlankFrame EXCEPT !.op = "budget", !.pc = "budget",
                       !.pieces = ps, !.max_total_chars = budget]
\* out: what trafilatura.extract returns for this document.
ProcessCall(raw, out, q, source) ==
    [BlankFrame EXCEPT !.op = "process", !.pc = "process", !.raw_results = raw,
                       !.library_output = out, !.query = q, !.source_name = source]

\* The calls that may run at once: batches that share fingerprints, lists
\* under and over budget, a short document and one that needs windows.
ConcurrentCalls ==
    { DedupCall(<<Record(<<"content", <<"a">>>>, 1),
                  Record(<<"content", <<" ", "A", "\n">>>>, 2),
                  Record(<<"content", <<"a", " ", "b">>>>, 3)>>),
      DedupCall(<<Record(<<"content", <<" ", "A", "\n">>>>, 1),
                  Record(<<"content", <<"A", "\n", " ", "B">>>>, 2)>>),
      DedupCall(<<Record(<<"absent", <<>>>>, 1),
                  Record(<<"content", <<"\n", "\t">>>>, 2)>>),
      BudgetCall(<<<<"a", "b">>, <<"b">>>>, 2),
      BudgetCall(<<<<"a">>, <<"b">>>>, 2),
      ProcessCall(<<"a", " ", "<", "a", ">">>, None, <<"a">>, <<"w">>),
      ProcessCall(LongWord \o <<"a", "a">>, LongWord \o <<" ", "a", " ", "b">>,
                  <<"A", " ", "b">>, <<"w">>) }

\* extract_content(raw) when trafilatura.extract returns out.
extract_content(raw, out) ==
    IF IsBlank(raw) THEN <<>>
    ELSE IF out # None /\ ~IsBlank(out) THEN strip(out)
    ELSE FallbackExtract(raw)

\* budget_context(list, budget)
budget_context(list, budget) ==
    IF list = <<>> THEN <<>>
    ELSE IF WithinBudget(list, budget) THEN Join(Separator, list)
    ELSE Join(Separator,
              [k \in 1..Len(list) |->
                  Slice(list[k], 0, per_result_budget(budget, Len(list)))])

\* One step of deduplicate_results on frame f; seen is the set of
\* fingerprints the step consults.
DedupFrameStep(f, seen) ==
    IF f.pc = "dedup"
    THEN [f EXCEPT !.seen_fingerprints = {}, !.unique_results = <<>>,
                   !.idx = 1, !.pc = "dedup_loop"]
    ELSE IF f.idx <= Len(f.results)
    THEN LET result == f.results[f.idx]
             fp == fingerprint(ContentOf(result))
         IN  IF fp \notin seen
             THEN [f EXCEPT !.seen_fingerprints = f.seen_fingerprints \cup {fp},
                            !.unique_results = Append(f.unique_results, result),
                            !.idx = f.idx + 1]
             ELSE [f EXCEPT !.idx = f.idx + 1]
    ELSE [f EXCEPT !.returned = f.unique_results, !.pc = "done"]

\* budget_context on frame f: one step.
BudgetFrameStep(f) ==
    [f EXCEPT !.returned = budget_context(f.pieces, f.max_total_chars), !.pc = "done"]

\* One step of process_search_results on frame f.
ProcessFrameStep(f) ==
    CASE f.pc = "process" ->
            [f EXCEPT !.extracted = extract_content(f.raw_results, f.library_output),
                      !.pc = "extracted"]
      [] f.pc = "extracted" ->
            IF f.extracted = <<>>
            THEN [f EXCEPT !.returned = <<>>, !.pc = "done"]
            ELSE IF Len(f.extracted) <= PipelineMaxChars
            THEN [f EXCEPT !.truncated = f.extracted, !.pc = "format"]
            ELSE [f EXCEPT !.query_words = split(lower(f.query)),
                           !.chunks = <<>>, !.start = 0, !.pc = "windows"]
      [] f.pc = "windows" ->
            IF f.start < Len(f.extracted)
            THEN [f EXCEPT !.chunks = Append(f.chunks,
                                Slice(f.extracted, f.start, f.start + PipelineMaxChars)),
                           !.start = f.start + (PipelineMaxChars - PipelineMaxChars \div 4)]
            ELSE [f EXCEPT !.truncated =
                               IF f.chunks = <<>>
                               THEN Slice(f.extracted, 0, PipelineMaxChars)
                               ELSE Slice(BestChunk(f.query_words, f.chunks),
                                          0, PipelineMaxChars),
                           !.pc = "format"]
      [] f.pc = "format" ->
            [f EXCEPT !.returned =
                          format_research_result(f.query, f.source_name, f.truncated),
                      !.pc = "done"]

\* The set of seen fingerprints call t consults: the local of its own frame.
\* (SeenByAnyCall: one set shared by all calls, as a module-level global or
\* a mutable default argument would be.)
SeenByAnyCall(t) == UNION {calls[u].seen_fingerprints : u \in CallIds}
SeenBy(t) == calls[t].seen_fingerprints

OtherVarsUnchanged ==
    UNCHANGED <<pc, caller, truncate_vars, dedup_vars, budget_vars, process_vars>>

ConcurrentDedupStep(t) ==
    /\ calls[t].op = "dedup" /\ calls[t].pc # "done"
    /\ calls' = [calls EXCEPT ![t] = DedupFrameStep(calls[t], SeenBy(t))]
    /\ OtherVarsUnchanged

ConcurrentBudgetStep(t) ==
    /\ calls[t].op = "budget" /\ calls[t].pc # "done"
    /\ calls' = [calls EXCEPT ![t] = BudgetFrameStep(calls[t])]
    /\ OtherVarsUnchanged

ConcurrentProcessStep(t) ==
    /\ calls[t].op = "process" /\ calls[t].pc # "done"
    /\ calls' = [calls EXCEPT ![t] = ProcessFrameStep(calls[t])]
    /\ OtherVarsUnchanged

ConcurrentNext ==
    \E t \in CallIds :
        ConcurrentDedupStep(t) \/ ConcurrentBudgetStep(t) \/ ConcurrentProcessStep(t)

\* The call of frame f run alone, from its arguments to its return.
FrameStep(f) ==
    CASE f.op = "dedup" -> DedupFrameStep(f, f.seen_fingerprints)
      [] f.op = "budget" -> BudgetFrameStep(f)
      [] f.op = "process" -> ProcessFrameStep(f)

RECURSIVE RunAlone(_)
RunAlone(f) == IF f.pc = "done" THEN f ELSE RunAlone(FrameStep(f))

\* The frame of the call f belongs to, as it was when the call was made.
AsCalled(f) ==
    [BlankFrame EXCEPT !.op = f.op, !.pc = f.op,
                       !.results = f.results,
                       !.pieces = f.pieces, !.max_total_chars = f.max_total_chars,
                       !.raw_results = f.raw_results, !.library_output = f.library_output,
                       !.query = f.query, !.source_name = f.source_name]

(***************************************************************************)
(* Idle values of the variables of the functions a specification does not  *)
(* run.                                                                    *)
(***************************************************************************)
TruncateIdle ==
    /\ text = <<>> /\ query = <<>> /\ max_chars = 1
    /\ query_words = {} /\ chunks = <<>> /\ start = 0 /\ truncated = None
DedupIdle ==
    /\ results = <<>> /\ seen_fingerprints = {} /\ unique_results = <<>>
    /\ idx = 1 /\ pass = 1 /\ first_pass = <<>>
BudgetIdle ==
    /\ pieces = <<>> /\ max_total_chars = 0 /\ context = None
ProcessIdle ==
    /\ raw_results = <<>> /\ source_name = <<>> /\ library_output = NotCalled
    /\ extracted = None /\ formatted = None

\* A direct call truncate_with_relevance(text, query, max_chars), max_chars >= 1.
TruncateInit ==
    /\ pc = "truncate"
    /\ caller = "none"
    /\ calls = <<>>
    /\ text \in Texts
    /\ query \in Queries
    /\ max_chars \in 1..MaxChars
    /\ query_words = {} /\ chunks = <<>> /\ start = 0 /\ truncated = None
    /\ DedupIdle /\ BudgetIdle /\ ProcessIdle

SpecTruncate == TruncateInit /\ [][TruncateNext]_vars

\* A call deduplicate_results(results).
DedupInit ==
    /\ pc = "dedup"
    /\ caller = "none"
    /\ calls = <<>>
    /\ results \in Batches
    /\ seen_fingerprints = {} /\ unique_results = <<>>
    /\ idx = 1 /\ pass = 1 /\ first_pass = <<>>
    /\ TruncateIdle /\ BudgetIdle /\ ProcessIdle

SpecDedup == DedupInit /\ [][DedupNext]_vars

\* A call budget_context(results, max_total_chars), max_total_chars >= 0.
BudgetInit ==
    /\ pc = "budget"
    /\ caller = "none"
    /\ calls = <<>>
    /\ pieces \in PieceLists
    /\ max_total_chars \in 0..MaxBudget
    /\ context = None
    /\ TruncateIdle /\ DedupIdle /\ ProcessIdle

SpecBudget == BudgetInit /\ [][BudgetNext]_vars

\* A call process_search_results(raw_results, query, source_name).
ProcessInit ==
    /\ pc = "process"
    /\ caller = "process"
    /\ calls = <<>>
    /\ raw_results \in RawInputs
    /\ query \in ProcessQueries
    /\ source_name \in SourceNames
    /\ library_output = NotCalled /\ extracted = None /\ formatted = None
    /\ text = <<>> /\ max_chars = 1
    /\ query_words = {} /\ chunks = <<>> /\ start = 0 /\ truncated = None
    /\ DedupIdle /\ BudgetIdle

SpecProcess == ProcessInit /\ [][ProcessNext]_vars

\* A call truncate_with_relevance(text, query, max_chars) with max_chars >= 0,
\* run to its end: a call that can take a step takes one.
TruncateLoopInit ==
    /\ pc = "truncate"
    /\ caller = "none"
    /\ calls = <<>>
    /\ text \in LoopTexts
    /\ query \in LoopQueries
    /\ max_chars \in 0..MaxChars
    /\ query_words = {} /\ chunks = <<>> /\ start = 0 /\ truncated = None
    /\ DedupIdle /\ BudgetIdle /\ ProcessIdle

SpecTruncateLoop ==
    TruncateLoopInit /\ [][TruncateLoopNext]_vars /\ WF_vars(TruncateLoopNext)

\* A call of one of the two functions that take a list: deduplicate_results
\* or budget_context.
BatchInit == DedupInit \/ BudgetInit

BatchNext == DedupNext \/ BudgetNext

SpecBatch == BatchInit /\ [][BatchNext]_vars

\* NumCalls calls made at once.
ConcurrentInit ==
    /\ pc = "concurrent"
    /\ caller = "none"
    /\ calls \in [CallIds -> ConcurrentCalls]
    /\ TruncateIdle /\ DedupIdle /\ BudgetIdle /\ ProcessIdle

SpecConcurrent == ConcurrentInit /\ [][ConcurrentNext]_vars

(***************************************************************************)
(* Properties of truncate_with_relevance, checked under SpecTruncate.      *)
(***************************************************************************)

\* C1: for every text, query and max_chars >= 1 the string returned by
\* truncate_with_relevance has at most max_chars characters.
TruncatedWithinMaxChars ==
    pc = "done" => Len(truncated) <= max_chars

\* A long text was windowed and a window after the first one was returned.
LaterWindowReturned ==
    /\ pc = "done"
    /\ Len(text) > max_chars
    /\ Len(chunks) >= 2
    /\ truncated # Slice(chunks[1], 0, max_chars)
    /\ Len(truncated) = max_chars

\* C3: a text of at most max_chars characters is returned unchanged, with
\* no window built and no query word computed, whatever the query.
ShortTextReturnedUnchanged ==
    (pc = "done" /\ Len(text) <= max_chars)
        => /\ truncated = text
           /\ chunks = <<>> /\ start = 0 /\ query_words = {}

\* A text of exactly max_chars characters with whitespace at both ends and
\* a query with words was returned.
PaddedShortTextReturned ==
    /\ pc = "done"
    /\ Len(text) = max_chars
    /\ Len(text) >= 3
    /\ IsSpace(text[1]) /\ IsSpace(text[Len(text)])
    /\ split(lower(query)) # {}
    /\ truncated = text

(***************************************************************************)
(* Properties of deduplicate_results, checked under SpecDedup.             *)
(***************************************************************************)

\* u is r with some elements left out: a strictly increasing choice of
\* positions of r spells u.
IsOrderedSubsequence(u, r) ==
    \E f \in [1..Len(u) -> 1..Len(r)] :
        /\ \A k \in 1..Len(u) : r[f[k]] = u[k]
        /\ \A k \in 1..(Len(u) - 1) : f[k] < f[k + 1]

\* C4: deduplicate_results returns an order-preserving subsequence of its
\* input: every returned record is an input record, and the returned
\* records keep the relative order (and multiplicity) of the input.
DedupIsOrderedSubsequence ==
    IsOrderedSubsequence(unique_results, results)

\* Of three records the middle one was dropped and the outer two returned.
MiddleRecordDropped ==
    /\ pc = "done" /\ pass = 1
    /\ Len(results) = 3
    /\ unique_results = <<results[1], results[3]>>

\* C5: deduplicate_results is idempotent: applied to its own output it
\* returns that output, same records in the same order.
DedupIdempotent ==
    (pc = "done" /\ pass = 2) => unique_results = first_pass

\* The second pass ran on a first output that had lost the second of three
\* records.
SecondPassAfterRemoval ==
    /\ pc = "done" /\ pass = 2
    /\ Len(first_pass) = 2
    /\ first_pass[1].id = 1 /\ first_pass[2].id = 3
    /\ unique_results = first_pass

\* The fingerprint as the specification words it: the first 200 characters
\* of the content (absent content counting as ""), lowercased, whitespace
\* runs collapsed to one space, trimmed.
StatedFingerprint(result) ==
    strip(CollapseWhitespace(lower(
        [i \in 1..Min(FingerprintLen, Len(ContentOf(result))) |-> ContentOf(result)[i]])))

\* The positions whose fingerprint occurs at no earlier position.
FirstOccurrences(rs) ==
    {i \in 1..Len(rs) :
        \A j \in 1..(i - 1) : StatedFingerprint(rs[j]) # StatedFingerprint(rs[i])}

\* The elements of rs at the positions in I, in order.
ElementsAt(rs, I) ==
    LET tagged == [i \in 1..Len(rs) |-> <<i, rs[i]>>]
        Chosen(p) == p[1] \in I
        chosen == SelectSeq(tagged, Chosen)
    IN  [k \in 1..Len(chosen) |-> chosen[k][2]]

\* Empty, absent or whitespace-only content.
HasBlankContent(result) ==
    \A i \in 1..Len(ContentOf(result)) : IsSpace(ContentOf(result)[i])

\* C6: the record at index i is kept iff no record at an index j < i has
\* the same fingerprint; so the records with empty, absent or
\* whitespace-only content share the fingerprint "" and only the first of
\* them survives.
DedupKeepsFirstOccurrences ==
    pc = "done" =>
        /\ unique_results = ElementsAt(results, FirstOccurrences(results))
        /\ \A i \in 1..Len(results) :
              HasBlankContent(results[i]) => fingerprint(ContentOf(results[i])) = <<>>
        /\ Cardinality({k \in 1..Len(unique_results) :
                           HasBlankContent(unique_results[k])}) <= 1
        /\ \A i \in 1..Len(results) :
              (/\ HasBlankContent(results[i])
               /\ \A j \in 1..(i - 1) : ~HasBlankContent(results[j]))
                  => \E k \in 1..Len(unique_results) : unique_results[k] = results[i]

\* A batch whose first record has no content and whose second has
\* whitespace-only content was deduplicated: the second was dropped.
BlankRecordsCollapsed ==
    /\ pc = "done" /\ pass = 1
    /\ Len(results) = 3
    /\ "content" \notin DOMAIN results[1]
    /\ "content" \in DOMAIN results[2] /\ results[2].content # <<>>
    /\ HasBlankContent(results[2])
    /\ ~HasBlankContent(results[3])
    /\ unique_results = <<results[1], results[3]>>

(***************************************************************************)
(* Properties of budget_context, checked under SpecBudget.                 *)
(***************************************************************************)

\* C2: the string returned by budget_context, separators included, never
\* has more than max_total_chars characters.
ContextWithinBudget ==
    pc = "done" => Len(context) <= max_total_chars

\* s is the strings of list in order, each followed, except the last, by
\* the separator "\n\n" -- stated position by position.
IsJoinOf(s, list) ==
    LET n == Len(list)
        Offset(k) == TotalLen(SubSeq(list, 1, k - 1)) + 2 * (k - 1)
    IN  /\ Len(s) = TotalLen(list) + 2 * Max(n - 1, 0)
        /\ \A k \in 1..n :
              SubSeq(s, Offset(k) + 1, Offset(k) + Len(list[k])) = list[k]
        /\ \A k \in 1..(n - 1) :
              /\ s[Offset(k) + Len(list[k]) + 1] = "\n"
              /\ s[Offset(k) + Len(list[k]) + 2] = "\n"

\* C7: when the lengths of the input strings sum to at most
\* max_total_chars, budget_context returns the input strings, unmodified
\* and in input order, joined by "\n\n".
UnderBudgetJoinsAll ==
    (pc = "done" /\ TotalLen(pieces) <= max_total_chars)
        => IsJoinOf(context, pieces)

\* Two non-empty strings that fill the budget exactly were joined.
ExactBudgetJoined ==
    /\ pc = "done"
    /\ Len(pieces) = 2
    /\ pieces[1] # <<>> /\ pieces[2] # <<>> /\ pieces[1] # pieces[2]
    /\ TotalLen(pieces) = max_total_chars
    /\ Len(context) = max_total_chars + 2

\* The first k characters of s (all of s when it has fewer).
FirstChars(s, k) == [i \in 1..Min(k, Len(s)) |-> s[i]]

\* C8: when the lengths sum to more than max_total_chars, every input
\* string is cut to its first max_total_chars // count characters and the
\* cut strings are joined in input order by "\n\n"; a string shorter than
\* that share is kept whole and its unused share goes to no other string.
OverBudgetEqualShares ==
    (pc = "done" /\ TotalLen(pieces) > max_total_chars)
        => IsJoinOf(context,
                    [k \in 1..Len(pieces) |->
                        FirstChars(pieces[k], max_total_chars \div Len(pieces))])

\* A non-empty string shorter than the share was kept whole beside a
\* string that was cut to the share.
ShortPieceKeptWhole ==
    /\ pc = "done"
    /\ Len(pieces) = 2
    /\ TotalLen(pieces) > max_total_chars
    /\ pieces[1] # <<>>
    /\ Len(pieces[1]) < max_total_chars \div 2
    /\ Len(pieces[2]) > max_total_chars \div 2
    /\ Len(context) = Len(pieces[1]) + 2 + max_total_chars \div 2

\* C9: for a non-empty list of count strings the returned string exceeds
\* max_total_chars by at most the separators: it has at most
\* max_total_chars + 2 * (count - 1) characters.
ContextWithinBudgetPlusSeparators ==
    (pc = "done" /\ pieces # <<>>)
        => Len(context) <= max_total_chars + 2 * (Len(pieces) - 1)

\* Two strings were cut and the result is exactly the budget plus one
\* separator long.
BudgetPlusSeparatorReached ==
    /\ pc = "done"
    /\ Len(pieces) = 2
    /\ TotalLen(pieces) > max_total_chars
    /\ max_total_chars >= 2
    /\ Len(context) = max_total_chars + 2

(***************************************************************************)
(* Properties of process_search_results, checked under SpecProcess.        *)
(***************************************************************************)

\* The attribution that precedes the content: "[Source: {source}] {query}: ".
Attribution(source, title) ==
    <<"[", "S", "o", "u", "r", "c", "e", ":", " ">> \o source
        \o <<"]", " ">> \o title \o <<":", " ">>

\* C10: process_search_results returns "" exactly when extract_content
\* returned "", and otherwise "[Source: {source_name}] {query}: {c}" with
\* c the result of truncate_with_relevance(extracted, query, 1000), so the
\* content after the attribution has at most 1000 characters.
ProcessResultFormat ==
    pc = "done" =>
        /\ formatted = <<>> <=> extracted = <<>>
        /\ extracted # <<>> =>
              /\ text = extracted /\ max_chars = 1000
              /\ formatted = Attribution(source_name, query) \o truncated
              /\ Len(formatted) <= Len(Attribution(source_name, query)) + 1000
              /\ Len(extracted) <= 1000 => truncated = extracted
              /\ Len(extracted) > 1000 =>
                    \E k \in 1..Len(chunks) : truncated = chunks[k]

\* An extracted text of more than 1000 characters was cut and attributed
\* to a named source under a query with words.
LongExtractFormatted ==
    /\ pc = "done"
    /\ Len(extracted) > 1000
    /\ source_name # <<>> /\ query # <<>>
    /\ Len(formatted) > Len(Attribution(source_name, query))
    /\ Len(formatted) <= Len(Attribution(source_name, query)) + 1000

\* Every character of s is whitespace (s may be empty).
AllWhitespace(s) == \A i \in 1..Len(s) : IsSpace(s[i])

\* t is s without its leading and trailing whitespace.
IsTrimOf(t, s) ==
    \E a \in 0..Len(s) : \E b \in 0..Len(s) :
        /\ a + Len(t) + b = Len(s)
        /\ \A i \in 1..a : IsSpace(s[i])
        /\ \A i \in 1..b : IsSpace(s[Len(s) + 1 - i])
        /\ \A i \in 1..Len(t) : t[i] = s[a + i]
        /\ t # <<>> => ~IsSpace(t[1]) /\ ~IsSpace(t[Len(t)])

\* C11: extract_content tries its strategies in a fixed order: empty or
\* whitespace-only input gives "" and no strategy is consulted; otherwise
\* a primary result that is non-empty after trimming is returned trimmed
\* and the fallback is not used; only when the primary yields nothing is
\* the tag-stripping fallback result returned.
ExtractionStrategyOrder ==
    pc # "process" =>
        /\ AllWhitespace(raw_results) =>
              extracted = <<>> /\ library_output = NotCalled
        /\ ~AllWhitespace(raw_results) =>
              /\ library_output # NotCalled
              /\ (library_output # None /\ ~AllWhitespace(library_output)) =>
                    IsTrimOf(extracted, library_output)
              /\ (library_output = None \/ AllWhitespace(library_output)) =>
                    extracted = FallbackExtract(raw_results)

\* The primary strategy returned only whitespace for a tagged document and
\* the fallback produced its text.
FallbackUsedAfterEmptyPrimary ==
    /\ pc = "done"
    /\ raw_results # <<>> /\ raw_results[1] = "<"
    /\ library_output # None /\ library_output # <<>>
    /\ AllWhitespace(library_output)
    /\ extracted # <<>>
    /\ extracted = FallbackExtract(raw_results)

(***************************************************************************)
(* Properties of calls running at once, checked under SpecConcurrent.      *)
(***************************************************************************)

\* C12: concurrent invocations are independent: under every interleaving
\* of the steps of simultaneous process_search_results,
\* deduplicate_results and budget_context calls, each call returns what it
\* returns when run alone, and its locals are at every step those of its
\* run alone (a call never sees another call's seen fingerprints or
\* windows).
ConcurrentCallsIndependent ==
    \A t \in CallIds :
        /\ calls[t].pc = "done" =>
              calls[t].returned = RunAlone(AsCalled(calls[t])).returned
        /\ calls[t].op = "dedup" =>
              calls[t].unique_results =
                  SubSeq(RunAlone(AsCalled(calls[t])).unique_results,
                         1, Len(calls[t].unique_results))

\* Two deduplicate_results calls are in their loops at once, both have
\* seen the same fingerprint, and the first has kept its record.
TwoDedupLoopsShareAFingerprint ==
    /\ calls[1].op = "dedup" /\ calls[2].op = "dedup"
    /\ calls[1].pc = "dedup_loop" /\ calls[2].pc = "dedup_loop"
    /\ calls[1].results # calls[2].results
    /\ calls[1].idx = 2 /\ calls[2].idx = 3
    /\ calls[1].seen_fingerprints \cap calls[2].seen_fingerprints # {}
    /\ Len(calls[1].unique_results) = 1

(***************************************************************************)
(* Properties of the list-taking functions, checked under SpecBatch.       *)
(***************************************************************************)

\* The caller passes a new list to deduplicate_results.
NewDedupCall == pc = "done" /\ pc' = "dedup"

\* C13: deduplicate_results and budget_context leave their input
\* unchanged: no step of either function changes the input list (same
\* length, same elements), and every record deduplicate_results has kept
\* is a record of the input with exactly its fields and values.
InputsLeftUnchanged ==
    /\ [][~NewDedupCall => (results' = results /\ pieces' = pieces)]_vars
    /\ [](\A k \in 1..Len(unique_results) :
              \E j \in 1..Len(results) : unique_results[k] = results[j])

\* A call has returned two of three records, one with a content field
\* that needs normalising and one with no content field at all.
ReturnedRecordsWithAndWithoutContent ==
    /\ pc = "done" /\ pass = 1
    /\ Len(results) = 3 /\ Len(unique_results) = 2
    /\ DOMAIN unique_results[1] = {"id", "content"}
    /\ fingerprint(unique_results[1].content) # unique_results[1].content
    /\ DOMAIN unique_results[2] = {"id"}

(***************************************************************************)
(* Properties of the windows of truncate_with_relevance, checked under     *)
(* SpecTruncate.                                                           *)
(***************************************************************************)

\* The stride s = max_chars - max_chars // 4.
Stride == max_chars - max_chars \div 4

\* Window k (k = 1, 2, ...) spans the 0-based positions WindowStart(k) up
\* to, not including, WindowEnd(k).
WindowStart(k) == (k - 1) * Stride
WindowEnd(k) == Min(WindowStart(k) + max_chars, Len(text))

\* The loop of a call with len(text) > max_chars has been left.
WindowsBuilt == pc = "done" /\ Len(text) > max_chars

\* C14: for len(text) > max_chars and max_chars >= 1 the windows start at
\* 0, s, 2s, ... with s = max_chars - max_chars // 4, window k is
\* text[start : start + max_chars], and once the loop is left every
\* character index of text lies in at least one window.
WindowsCoverText ==
    /\ (pc = "windows" \/ WindowsBuilt) =>
          /\ start = Len(chunks) * Stride
          /\ \A k \in 1..Len(chunks) :
                /\ WindowStart(k) < Len(text)
                /\ chunks[k] = [i \in 1..(WindowEnd(k) - WindowStart(k)) |->
                                   text[WindowStart(k) + i]]
    /\ WindowsBuilt =>
          \A i \in 0..(Len(text) - 1) :
              \E k \in 1..Len(chunks) : WindowStart(k) <= i /\ i < WindowEnd(k)

\* A text of five characters was cut into two windows of at most four
\* characters that overlap in one position.
TwoOverlappingWindows ==
    /\ WindowsBuilt
    /\ max_chars = 4 /\ Len(text) = 5
    /\ Len(chunks) = 2
    /\ Len(chunks[1]) = 4 /\ Len(chunks[2]) = 2
    /\ WindowStart(2) < WindowEnd(1)

\* The number of windows of text: the least n with n * Stride >= len(text).
WindowCount == CHOOSE n \in 1..Len(text) :
                   /\ n * Stride >= Len(text)
                   /\ (n - 1) * Stride < Len(text)

\* Window k of text, cut from text itself.
WindowOf(k) == [i \in 1..(WindowEnd(k) - WindowStart(k)) |-> text[WindowStart(k) + i]]

\* The words of a string: lowercase, whitespace-separated, distinct.
WordsOf(s) == split(lower(s))

\* The score of window k: the number of distinct query words among its words.
WindowScore(k) == Cardinality(WordsOf(query) \cap WordsOf(WindowOf(k)))

\* C15: for len(text) > max_chars, truncate_with_relevance returns the
\* window whose score is maximal over all windows, and among the windows of
\* maximal score the one with the smallest start position.
BestEarliestWindowReturned ==
    WindowsBuilt =>
        \E k \in 1..WindowCount :
            /\ truncated = WindowOf(k)
            /\ \A j \in 1..WindowCount : WindowScore(j) <= WindowScore(k)
            /\ \A j \in 1..(k - 1) : WindowScore(j) < WindowScore(k)

\* Three windows, the second and the third with the same maximal score and
\* different characters: the second was returned.
TieBrokenByPosition ==
    /\ WindowsBuilt
    /\ WindowCount = 3
    /\ WindowScore(1) < WindowScore(2)
    /\ WindowScore(2) = WindowScore(3)
    /\ WindowOf(2) # WindowOf(3)
    /\ truncated = WindowOf(2)

\* The window truncate_with_relevance selects: the first of maximal score.
SelectedWindow ==
    CHOOSE k \in 1..WindowCount :
        /\ \A j \in 1..WindowCount : WindowScore(j) <= WindowScore(k)
        /\ \A j \in 1..(k - 1) : WindowScore(j) < WindowScore(k)

WindowLoopTerminates ==
    /\ (max_chars >= 1) ~> (pc = "done")
    /\ [][(max_chars >= 1 /\ pc = "windows" /\ pc' = "windows") => start' > start]_vars
    /\ []((max_chars >= 1 /\ pc = "done" /\ Len(text) > max_chars) => chunks # <<>>)
    /\ []((max_chars = 0 /\ text # <<>>) =>
              /\ pc # "done"
              /\ pc = "windows" => (start = 0 /\ start < Len(text)))

\* With max_chars = 1 a text of three or more characters was cut into one
\* window per character and the call ended.
OneWindowPerCharacter ==
    /\ pc = "done"
    /\ max_chars = 1
    /\ Len(text) >= 3
    /\ Len(chunks) = Len(text)
    /\ start = Len(text)

(***************************************************************************)
(* Relevance across window boundaries, checked under SpecTruncate.         *)
(***************************************************************************)

\* The score of the returned string: the number of distinct query words
\* among its words.
ReturnedScore == Cardinality(WordsOf(query) \cap WordsOf(truncated))

\* C18 as stated: if len(text) > max_chars and some query word occurs in
\* text as a whitespace-delimited word (case-insensitively), the returned
\* window has score >= 1.
RelevanceNeverLost ==
    (WindowsBuilt /\ WordsOf(query) \cap WordsOf(text) # {}) => ReturnedScore >= 1

\* C18: if len(text) > max_chars and some query word of at most
\* max_chars // 4 + 1 characters occurs in text as a whitespace-delimited
\* word (case-insensitively), the returned window has score >= 1.
ShortWordRelevanceKept ==
    (/\ WindowsBuilt
     /\ \E w \in WordsOf(query) \cap WordsOf(text) : Len(w) <= max_chars \div 4 + 1)
        => ReturnedScore >= 1

\* The only query word is cut by the end of the first window, lies whole
\* in the second thanks to the overlap, and the second window was returned.
WordFoundInOverlap ==
    /\ WindowsBuilt
    /\ max_chars = 4
    /\ WordsOf(query) = {<<"a", "a">>}
    /\ <<"a", "a">> \in WordsOf(text)
    /\ WindowScore(1) = 0
    /\ truncated = WindowOf(2)
    /\ ReturnedScore = 1

(***************************************************************************)
(* Near-duplicates and length, checked under SpecDedup.                    *)
(***************************************************************************)

\* A string lowercased, trimmed, and with every whitespace run collapsed to
\* a single space.
Normalised(s) == CollapseWhitespace(strip(lower(s)))

\* The first FingerprintLen characters of a record's content.
ContentPrefix(result) ==
    [i \in 1..Min(FingerprintLen, Len(ContentOf(result))) |-> ContentOf(result)[i]]

\* The record at position i of the input is among the returned records.
Kept(i) == \E k \in 1..Len(unique_results) : unique_results[k] = results[i]

\* C19 as stated: of any two records whose whole content strings become
\* equal after lowercasing, trimming and collapsing whitespace runs,
\* deduplicate_results keeps at most one, whatever their length.
NearDuplicatesRemovedAtAnyLength ==
    pc = "done" =>
        \A i, j \in 1..Len(results) :
            (i < j /\ Normalised(ContentOf(results[i])) = Normalised(ContentOf(results[j])))
                => ~(Kept(i) /\ Kept(j))

\* C19: of any two records whose first 200 content characters become equal
\* after lowercasing, trimming and collapsing whitespace runs,
\* deduplicate_results keeps at most one.
PrefixNearDuplicatesRemoved ==
    pc = "done" =>
        \A i, j \in 1..Len(results) :
            (i < j /\ Normalised(ContentPrefix(results[i])) = Normalised(ContentPrefix(results[j])))
                => ~(Kept(i) /\ Kept(j))

\* Two records longer than 200 characters that differ only after the
\* 200th character: the first was kept and the second dropped.
LongRecordsWithEqualPrefix ==
    /\ pc = "done" /\ pass = 1
    /\ Len(results) = 2
    /\ Len(ContentOf(results[1])) > FingerprintLen
    /\ Len(ContentOf(results[2])) > FingerprintLen
    /\ ContentOf(results[1]) # ContentOf(results[2])
    /\ Normalised(ContentPrefix(results[1])) = Normalised(ContentPrefix(results[2]))
    /\ unique_results = <<results[1]>>

(***************************************************************************)
(* No piece is dropped, checked under SpecBudget.                          *)
(***************************************************************************)

\* The number of newline characters of s.
NewlineCount(s) == Cardinality({i \in 1..Len(s) : s[i] = "\n"})

\* p is a prefix of s.
IsPrefixOf(p, s) == Len(p) <= Len(s) /\ \A i \in 1..Len(p) : p[i] = s[i]

\* s is the join of one prefix of every string of the non-empty list, in
\* order: a prefix of the first string, then, if more strings follow, a
\* separator and the join of one prefix of each of them.
RECURSIVE IsJoinOfPrefixes(_, _)
IsJoinOfPrefixes(s, list) ==
    IF Len(list) = 1
    THEN IsPrefixOf(s, list[1])
    ELSE \E n \in 0..Min(Len(list[1]), Len(s) - 2) :
            /\ IsPrefixOf(SubSeq(s, 1, n), list[1])
            /\ SubSeq(s, n + 1, n + 2) = Separator
            /\ IsJoinOfPrefixes(SubSeq(s, n + 3, Len(s)), Tail(list))

\* s consists of count - 1 separators and nothing else.
SeparatorsOnly(s, count) ==
    /\ Len(s) = 2 * (count - 1)
    /\ \A i \in 1..Len(s) : s[i] = "\n"

\* Every piece is present: the result of a non-empty list is the join of
\* one prefix per input string with count - 1 separators, and the result
\* of the empty list is "".
EveryPieceJoined ==
    /\ pieces = <<>> => context = <<>>
    /\ pieces # <<>> =>
          /\ IsJoinOfPrefixes(context, pieces)
          /\ NewlineCount(context) = 2 * (Len(pieces) - 1)

\* C20 as stated: no piece is dropped, and whenever count > max_total_chars
\* each share is 0 and the result consists of count - 1 separators only.
NoPieceDroppedAndSeparatorsOnly ==
    pc = "done" =>
        /\ EveryPieceJoined
        /\ (pieces # <<>> /\ Len(pieces) > max_total_chars)
              => SeparatorsOnly(context, Len(pieces))

\* C20: budget_context never drops a piece: for a non-empty list of count
\* strings and max_total_chars >= 0 the result is the join of exactly
\* count prefixes of the inputs in input order (count - 1 separators), and
\* budget_context([]) is ""; when count > max_total_chars and the lengths
\* sum to more than max_total_chars, each share is 0 and the result
\* consists of count - 1 separators only.
NoPieceDropped ==
    pc = "done" =>
        /\ EveryPieceJoined
        /\ (/\ pieces # <<>>
            /\ Len(pieces) > max_total_chars
            /\ TotalLen(pieces) > max_total_chars)
              => SeparatorsOnly(context, Len(pieces))

\* Two non-empty strings and a budget of one character: both were cut to
\* nothing and the result is the one separator between them.
TwoPiecesCutToNothing ==
    /\ pc = "done"
    /\ Len(pieces) = 2
    /\ pieces[1] # <<>> /\ pieces[2] # <<>>
    /\ max_total_chars = 1
    /\ context = Separator

====
